---- MODULE Spec2Model ----
(***************************************************************************)
(* Face-recognition attendance: the browser client (App.tsx,               *)
(* WebcamDisplay.tsx, RegistrationPanel.tsx) and the attendance servers of *)
(* types.ts.                                                               *)
(*                                                                         *)
(* Embeddings are modelled as one-dimensional integer vectors measured in  *)
(* tenths, so the Euclidean distance is |a - b| and the threshold 0.5 is 5.*)
(* Times are milliseconds as returned by Date.now().                       *)
(***************************************************************************)
EXTENDS Integers, Sequences, FiniteSets, Bags, TLC

VARIABLES
    registeredUsers,        \* App state: RegisteredUser[]
    pendingUsers,           \* setRegisteredUsers updaters not yet rendered
    faceMatcher,            \* WebcamDisplay state: FaceMatcher or null
    lastLoggedTimestamps,   \* App state as of the last render: name -> ms
    pendingStamps,          \* setLastLoggedTimestamps updaters not yet rendered
    attendanceLog,          \* App state as of the last render, newest first
    pendingLog,             \* setAttendanceLog updates not yet rendered
    decided,                \* outcome of the updater calls of the last step
    labels,                 \* labels drawn by the cycle that just completed
    inFlight,               \* detectFaces cycles awaiting detectAllFaces
    rejected,               \* the cycle that just completed threw (its promise rejected)
    isLoaded,               \* faceapi.nets.ssdMobilenetv1.isLoaded
    modelsLoaded,           \* App state isModelsLoaded: the three nets are loaded
    stream,                 \* the camera stream, see startWebcam
    error,                  \* WebcamDisplay state: the failures setError reported
    ended,                  \* video.ended
    interval,               \* detectionIntervalRef.current is set
    clock,                  \* index into Times: the current Date.now()
    posts,                  \* POST /api/attendance requests, in issue order
    file,                   \* attendance.json on the server
    fetchState,             \* the GET issued on mount: "sent", "read", "done"
    fetchData,              \* the body of the GET response
    backend,                \* which server of types.ts runs: "file" or "mongo"
    collection,             \* the attendances collection of the mongo server
    nameText,               \* RegistrationPanel state name: the text of the input
    message,                \* RegistrationPanel state message
    isRegistering,          \* RegistrationPanel state isRegistering
    capture,                \* the running captureAndRegister, if any
    localStorage,           \* localStorage item 'registeredUsers'
    csvContent              \* the text of the CSV file last offered for download

vars == <<registeredUsers, pendingUsers, faceMatcher, lastLoggedTimestamps,
          pendingStamps, attendanceLog, pendingLog, decided, labels,
          rejected, inFlight, isLoaded, modelsLoaded, stream, error, ended, interval, clock, posts,
          file, fetchState, fetchData, backend, collection, nameText, message,
          isRegistering, capture, localStorage, csvContent>>

---------------------------------------------------------------------------
\* Program constants (src/types.ts:165-166)

FACE_MATCH_THRESHOLD == 5

ATTENDANCE_COOLDOWN_MS == 5 * 60 * 1000

---------------------------------------------------------------------------
\* Bounds of the model

MaxUsers == 2

MaxFaces == 2

MaxInFlight == 2

MaxLog == 2

MaxPosts == 3

MaxRows == 2

\* The instants at which Date.now() is read
Times == <<0, 300000, 600000>>

\* Faces that can be enrolled: two people called Alice, Bob, and a person
\* whose name is the matcher's sentinel
Enrolments == { [name |-> "Alice", descriptor |-> 0],
                [name |-> "Alice", descriptor |-> 4],
                [name |-> "Bob", descriptor |-> 4],
                [name |-> "unknown", descriptor |-> 9] }

\* Embeddings the detector can report for a face in the frame
Descriptors == {0, 2, 9}

Names == {e.name : e \in Enrolments}

\* Contents of attendance.json left by an earlier session
StoredFile == <<[id |-> <<"Bob", 0>>, name |-> "Bob", timestamp |-> <<"iso", 0>>,
                 date |-> <<"day", 0>>, time |-> <<"time", 0>>]>>

\* Texts the name input can hold, as sequences of single-character or
\* whole-word pieces
NameTexts == { <<>>, <<" ">>, <<" ", "\t">>, <<"Alice">>, <<" ", "Bob", " ">> }

\* Names of attendance records as texts: plain ones and ones that hold a
\* comma, a line break or a double quote
CsvNames == { <<"Alice">>, <<"Bob">>, <<"O", ",", "Neil">>, <<"Al", "\n", "ice">>,
              <<"Al", "\"", "ice">> }

\* Records the attendance table can show, their names held as texts
CsvRecords == { [id |-> <<>>, name |-> n, timestamp |-> Times[t]] :
                    n \in CsvNames, t \in DOMAIN Times }

\* Attendance logs handed to the CSV export
CsvLogs == UNION { [1..k -> CsvRecords] : k \in 0..MaxRows }

\* What the load effect can find in localStorage on mount
StoredUsers == { <<>>, <<[name |-> "Alice", descriptor |-> 0]>> }

Frames == UNION { [1..n -> Descriptors] : n \in 0..MaxFaces }

Now == Times[clock]

---------------------------------------------------------------------------
\* Values

\* JavaScript null (no matcher) and undefined (a missing property)
NoMatcher == <<>>

Undefined == <<>>

\* JSON.stringify(date): the ISO-8601 string of an instant, exact to the ms
toISOString(ms) == <<"iso", ms>>

\* new Date(isoString).getTime()
parseDate(iso) == iso[2]

\* date.toLocaleDateString(): the calendar day of the instant
toLocaleDateString(ms) == <<"day", ms \div 86400000>>

\* date.toLocaleTimeString(): the time of day of the instant, to the second
toLocaleTimeString(ms) == <<"time", (ms % 86400000) \div 1000>>

\* JSON.stringify(registeredUsers): a Float32Array descriptor is written as
\* an object of its elements
StringifyUsers(users) ==
    [i \in 1..Len(users) |->
        [name |-> users[i].name, descriptor |-> <<"json", users[i].descriptor>>]]

\* JSON.parse(storedUsers).map(user => ({ ...user,
\* descriptor: new Float32Array(Object.values(user.descriptor)) }))
ParseUsers(item) ==
    [i \in 1..Len(item) |-> [name |-> item[i].name, descriptor |-> item[i].descriptor[2]]]

\* message === null
NoMessage == ""

\* The characters String.prototype.trim removes
WhiteSpace == {" ", "\t"}

RECURSIVE trimStart(_)
trimStart(text) ==
    IF text # <<>> /\ Head(text) \in WhiteSpace THEN trimStart(Tail(text)) ELSE text

RECURSIVE trimEnd(_)
trimEnd(text) ==
    IF text # <<>> /\ text[Len(text)] \in WhiteSpace
    THEN trimEnd(SubSeq(text, 1, Len(text) - 1))
    ELSE text

\* name.trim() left out
trimNothing(text) == text

\* name.trim()
trim(text) == trimEnd(trimStart(text))

\* The string made of the pieces of text
RECURSIVE Join(_)
Join(text) == IF text = <<>> THEN "" ELSE Head(text) \o Join(Tail(text))

Abs(x) == IF x < 0 THEN 0 - x ELSE x

\* faceapi.euclideanDistance over one-dimensional descriptors
euclideanDistance(a, b) == Abs(a - b)

---------------------------------------------------------------------------
\* WebcamDisplay.tsx: the matcher (faceapi.FaceMatcher as face-api.js defines it)

\* registeredUsers.map(user => new LabeledFaceDescriptors(user.name,
\* [user.descriptor])), then new FaceMatcher(...) or null when there are none
BuildMatcher(users) ==
    IF Len(users) > 0
    THEN [i \in 1..Len(users) |->
            [label |-> users[i].name, descriptors |-> <<users[i].descriptor>>]]
    ELSE NoMatcher

RECURSIVE SumDistances(_, _, _)
SumDistances(descriptors, q, i) ==
    IF i > Len(descriptors) THEN 0
    ELSE euclideanDistance(descriptors[i], q) + SumDistances(descriptors, q, i + 1)

\* FaceMatcher.computeMeanDistance
computeMeanDistance(q, descriptors) ==
    SumDistances(descriptors, q, 1) \div (IF Len(descriptors) = 0 THEN 1 ELSE Len(descriptors))

FaceMatch(m, q, i) ==
    [label |-> m[i].label, distance |-> computeMeanDistance(q, m[i].descriptors)]

\* FaceMatcher.matchDescriptor:
\* .reduce((best, curr) => best.distance < curr.distance ? best : curr)
RECURSIVE reduceBest(_, _, _, _)
reduceBest(m, q, i, best) ==
    IF i > Len(m) THEN best
    ELSE LET curr == FaceMatch(m, q, i)
         IN  reduceBest(m, q, i + 1,
                        IF best.distance < curr.distance THEN best ELSE curr)

matchDescriptor(m, q) == reduceBest(m, q, 2, FaceMatch(m, q, 1))

\* FaceMatcher.findBestMatch: the best match, or the label 'unknown' when its
\* distance is not below the matcher's threshold
findBestMatch(m, q) ==
    LET best == matchDescriptor(m, q)
    IN  IF best.distance < FACE_MATCH_THRESHOLD
        THEN best
        ELSE [label |-> "unknown", distance |-> best.distance]

\* detectFaces, one detection: the label drawn, and whether and with which
\* name onFaceRecognized is called
Classify(matcher, q) ==
    IF matcher = NoMatcher
    THEN [recognized |-> FALSE, name |-> "Unknown", percent |-> 0]
    ELSE LET bestMatch == findBestMatch(matcher, q)
         IN  IF bestMatch.label # "unknown" /\ bestMatch.distance < FACE_MATCH_THRESHOLD
             THEN [recognized |-> TRUE, name |-> bestMatch.label,
                   percent |-> (10 - bestMatch.distance) * 10]
             ELSE [recognized |-> FALSE, name |-> "Unknown", percent |-> 0]

\* The label of each detection of the frame, as the cycle draws it
DrawnLabels(matcher, frame) ==
    [i \in 1..Len(frame) |-> Classify(matcher, frame[i]).name]

\* RecognizedNames with the call to onFaceRecognized moved out of the test of
\* the best match: every detection is reported under the matcher's label
RECURSIVE RecognizedNamesUnguarded(_, _, _)
RecognizedNamesUnguarded(matcher, frame, i) ==
    IF i > Len(frame) THEN <<>>
    ELSE (IF matcher = NoMatcher THEN <<>>
          ELSE <<findBestMatch(matcher, frame[i]).label>>)
         \o RecognizedNamesUnguarded(matcher, frame, i + 1)

\* The names passed to onFaceRecognized by resizedDetections.forEach, in order
RECURSIVE RecognizedNames(_, _, _)
RecognizedNames(matcher, frame, i) ==
    IF i > Len(frame) THEN <<>>
    ELSE LET c == Classify(matcher, frame[i])
         IN  (IF c.recognized THEN <<c.name>> ELSE <<>>)
             \o RecognizedNames(matcher, frame, i + 1)

---------------------------------------------------------------------------
\* App.tsx: the cooldown gate inside the setAttendanceLog updater

\* lastLoggedTimestamps[name] || 0
LastLoggedTime(stamps, name) ==
    IF name \in DOMAIN stamps /\ stamps[name] # 0 THEN stamps[name] ELSE 0

\* !(now - lastLoggedTime < ATTENDANCE_COOLDOWN_MS)
Eligible(now, lastLoggedTime) == ~(now - lastLoggedTime < ATTENDANCE_COOLDOWN_MS)

\* An update that sets [name] and resets the entries of the other names
SetStampReset(stamps, name, now) ==
    [n \in DOMAIN stamps \cup {name} |-> IF n = name THEN now ELSE 0]

\* ({ [name]: now }), without the spread of prevTimestamps
SetStampAlone(stamps, name, now) == [n \in {name} |-> now]

\* ({ ...prevTimestamps, [name]: now })
SetStamp(stamps, name, now) ==
    [n \in DOMAIN stamps \cup {name} |-> IF n = name THEN now ELSE stamps[n]]

RECURSIVE ApplyStamps(_, _, _)
ApplyStamps(stamps, updates, i) ==
    IF i > Len(updates) THEN stamps
    ELSE ApplyStamps(SetStamp(stamps, updates[i].name, updates[i].now), updates, i + 1)

\* newRecord: id `${name}-${now}`, timestamp new Date()
NewRecord(name, now) == [id |-> <<name, now>>, name |-> name, timestamp |-> now]

\* saveAttendanceRecord: the POST request put on the wire
PostRequest(record) ==
    [name |-> record.name, timestamp |-> toISOString(record.timestamp),
     phase |-> "sent", snap |-> <<>>, idNow |-> 0, status |-> 0, response |-> <<>>,
     caught |-> "none"]

\* The time of the newest record for name that this page accepted, -1 if none
RECURSIVE LatestAccept(_, _, _)
LatestAccept(log, name, i) ==
    IF i > Len(log) THEN 0 - 1
    ELSE IF log[i].name = name /\ log[i].id # Undefined
         THEN log[i].timestamp
         ELSE LatestAccept(log, name, i + 1)

\* One run of the updater prevLog => ... of handleFaceRecognized, with the
\* lastLoggedTimestamps its closure captured; s carries the effects so far
RunUpdater(s, name, stamps, now) ==
    LET last == LastLoggedTime(stamps, name)
        ok == Eligible(now, last)
        newRecord == NewRecord(name, now)
        log == IF ok THEN <<newRecord>> \o s.log ELSE s.log
        d == [name |-> name, now |-> now, had |-> name \in DOMAIN stamps,
              last |-> last, prev |-> LatestAccept(s.log, name, 1), accepted |-> ok,
              before |-> Len(s.log), after |-> Len(log)]
    IN  [log |-> log,
         stamps |-> IF ok THEN Append(s.stamps, [name |-> name, now |-> now]) ELSE s.stamps,
         posts |-> IF ok THEN Append(s.posts, PostRequest(newRecord)) ELSE s.posts,
         decided |-> Append(s.decided, d)]

SetEntry(log) == [kind |-> "set", log |-> log, name |-> "", stamps |-> <<>>]

FnEntry(name, stamps) == [kind |-> "fn", log |-> <<>>, name |-> name, stamps |-> stamps]

---------------------------------------------------------------------------
\* Initial state of the page: App and WebcamDisplay mounted, nothing
\* registered but what the load effect found in localStorage, models and
\* camera not yet available, the GET of the mount effect on the wire;
\* attendance.json holds stored, localStorage holds users, the attendance
\* log is log
InitWith(stored, users, log) ==
    /\ registeredUsers = <<>>
    /\ pendingUsers = ParseUsers(StringifyUsers(users))
    /\ localStorage = StringifyUsers(users)
    /\ nameText = <<>>
    /\ message = NoMessage
    /\ isRegistering = FALSE
    /\ capture = <<>>
    /\ faceMatcher = NoMatcher
    /\ lastLoggedTimestamps = <<>>
    /\ pendingStamps = <<>>
    /\ attendanceLog = log
    /\ csvContent = <<>>
    /\ pendingLog = <<>>
    /\ decided = <<>>
    /\ labels = <<>>
    /\ rejected = FALSE
    /\ inFlight = EmptyBag
    /\ isLoaded = FALSE
    /\ modelsLoaded = FALSE
    /\ stream = "none"
    /\ error = {}
    /\ ended = FALSE
    /\ interval = FALSE
    /\ clock = 1
    /\ posts = <<>>
    /\ file = stored
    /\ fetchState = "sent"
    /\ fetchData = <<>>
    /\ collection = <<>>

Init == InitWith(StoredFile, <<>>, <<>>) /\ backend = "file"

\* Date.now() advances
Tick ==
    /\ clock < Len(Times)
    /\ clock' = clock + 1
    /\ decided' = <<>> /\ labels' = <<>> /\ rejected' = FALSE
    /\ UNCHANGED <<registeredUsers, pendingUsers, faceMatcher,
                   lastLoggedTimestamps, pendingStamps, attendanceLog,
                   pendingLog, inFlight, modelsLoaded, stream, ended, interval,
                   posts, file, fetchState, fetchData, backend, collection,
                   error, nameText, message, isRegistering, capture,
                   localStorage, csvContent, isLoaded>>

\* faceapi.nets.ssdMobilenetv1.loadFromUri resolves: the detector net is
\* loaded, the loads of the landmark and the recognition net still run
loadFromUri ==
    /\ ~isLoaded /\ "models" \notin error
    /\ isLoaded' = TRUE
    /\ decided' = <<>> /\ labels' = <<>> /\ rejected' = FALSE
    /\ UNCHANGED <<registeredUsers, pendingUsers, faceMatcher,
                   lastLoggedTimestamps, pendingStamps, attendanceLog,
                   pendingLog, inFlight, modelsLoaded, stream, ended, interval,
                   clock, posts, file, fetchState, fetchData, backend,
                   collection, error, nameText, message, isRegistering,
                   capture, localStorage, csvContent>>

\* loadModels resolves: Promise.all of the three loads is fulfilled,
\* onModelsLoaded(true)
loadModels ==
    /\ isLoaded /\ ~modelsLoaded /\ "models" \notin error
    /\ modelsLoaded' = TRUE
    /\ decided' = <<>> /\ labels' = <<>> /\ rejected' = FALSE
    /\ UNCHANGED <<registeredUsers, pendingUsers, faceMatcher,
                   lastLoggedTimestamps, pendingStamps, attendanceLog,
                   pendingLog, inFlight, stream, ended, interval, clock, posts,
                   file, fetchState, fetchData, backend, collection, error,
                   nameText, message, isRegistering, capture, localStorage,
                   csvContent, isLoaded>>

\* setError(message) and the render it causes: the cleanup of the detection
\* effect clears the interval and stops the tracks of video.srcObject, and
\* the error text replaces the video element
EnterError(cause, attached) ==
    /\ error' = error \cup {cause}
    /\ interval' = FALSE
    /\ stream' = IF attached \in {"live", "stopped"} THEN "stopped" ELSE attached
    /\ ended' \in (IF attached = "live" /\ error = {} THEN BOOLEAN ELSE {ended})

\* loadModels rejects: setError, onModelsLoaded(false)
loadModelsFails ==
    /\ ~modelsLoaded /\ "models" \notin error
    /\ EnterError("models", stream)
    /\ decided' = <<>> /\ labels' = <<>> /\ rejected' = FALSE
    /\ UNCHANGED <<registeredUsers, pendingUsers, faceMatcher,
                   lastLoggedTimestamps, pendingStamps, attendanceLog,
                   pendingLog, inFlight, modelsLoaded, clock, posts, file,
                   fetchState, fetchData, backend, collection, nameText,
                   message, isRegistering, capture, localStorage, csvContent,
                   isLoaded>>

\* startWebcam: getUserMedia resolves. With the video element mounted the
\* stream becomes video.srcObject ("live"), the video plays and handlePlay
\* starts the detection interval; with the error text rendered
\* videoRef.current is null and the stream is left as acquired, its tracks
\* running ("unattached"). Before that stream is "none", after the cleanup
\* of the detection effect "stopped", after a rejection "denied".
startWebcam ==
    /\ stream = "none"
    /\ stream' = IF error = {} THEN "live" ELSE "unattached"
    /\ interval' = (error = {})
    /\ decided' = <<>> /\ labels' = <<>> /\ rejected' = FALSE
    /\ UNCHANGED <<registeredUsers, pendingUsers, faceMatcher,
                   lastLoggedTimestamps, pendingStamps, attendanceLog,
                   pendingLog, inFlight, modelsLoaded, error, ended, clock,
                   posts, file, fetchState, fetchData, backend, collection,
                   nameText, message, isRegistering, capture, localStorage,
                   csvContent, isLoaded>>

\* startWebcam fails: getUserMedia rejects, or the stream is attached and
\* play() rejects; either way setError
startWebcamFails ==
    /\ stream = "none"
    /\ \E attached \in {"denied"} \cup (IF error = {} THEN {"live"} ELSE {}) :
           EnterError("camera", attached)
    /\ decided' = <<>> /\ labels' = <<>> /\ rejected' = FALSE
    /\ UNCHANGED <<registeredUsers, pendingUsers, faceMatcher,
                   lastLoggedTimestamps, pendingStamps, attendanceLog,
                   pendingLog, inFlight, modelsLoaded, clock, posts, file,
                   fetchState, fetchData, backend, collection, nameText,
                   message, isRegistering, capture, localStorage, csvContent,
                   isLoaded>>

\* A registration that merges into the entry of the same name, if any
MergeUser(users, user) ==
    IF \E i \in DOMAIN users : users[i].name = user.name
    THEN [i \in DOMAIN users |-> IF users[i].name = user.name THEN user ELSE users[i]]
    ELSE Append(users, user)

\* prev => [...prev, { name, descriptor }]
AppendUser(users, user) == Append(users, user)

\* handleFaceRegistered(name, descriptor), called by the registration panel
\* once the models are loaded: setRegisteredUsers(prev => [...prev, user])
handleFaceRegistered ==
    \E user \in Enrolments :
        /\ modelsLoaded
        /\ Len(registeredUsers) + Len(pendingUsers) < MaxUsers
        /\ pendingUsers' = AppendUser(pendingUsers, user)
        /\ decided' = <<>> /\ labels' = <<>> /\ rejected' = FALSE
        /\ UNCHANGED <<registeredUsers, faceMatcher, lastLoggedTimestamps,
                   pendingStamps, attendanceLog, pendingLog, inFlight,
                   modelsLoaded, stream, ended, interval, clock, posts, file,
                   fetchState, fetchData, backend, collection, error, nameText,
                   message, isRegistering, capture, localStorage, csvContent,
                   isLoaded>>

\* A tick of setInterval(detectFaces, 300) that passes the guards of
\* detectFaces and reaches await detectAllFaces. The cycle keeps the
\* faceMatcher and the onFaceRecognized its detectFaces closed over.
detectFacesStart ==
    /\ interval
    /\ isLoaded
    /\ stream \in {"live", "stopped"} /\ ~ended
    /\ BagCardinality(inFlight) < MaxInFlight
    /\ inFlight' = inFlight (+) SetToBag({[matcher |-> faceMatcher,
                                           stamps |-> lastLoggedTimestamps]})
    /\ decided' = <<>> /\ labels' = <<>> /\ rejected' = FALSE
    /\ UNCHANGED <<registeredUsers, pendingUsers, faceMatcher,
                   lastLoggedTimestamps, pendingStamps, attendanceLog,
                   pendingLog, modelsLoaded, stream, ended, interval, clock,
                   posts, file, fetchState, fetchData, backend, collection,
                   error, nameText, message, isRegistering, capture,
                   localStorage, csvContent, isLoaded>>

\* handleFaceRecognized(name) with the captured lastLoggedTimestamps:
\* setAttendanceLog(updater). With no update pending on App, React may run
\* the updater at once (eager state); otherwise it is queued for the render.
RECURSIVE Dispatch(_, _, _, _, _)
Dispatch(s, names, stamps, eager, i) ==
    IF i > Len(names) THEN s
    ELSE
      LET idle == s.plog = <<>> /\ s.stamps = <<>> /\ pendingUsers = <<>>
          r == RunUpdater([log |-> attendanceLog, stamps |-> <<>>, posts |-> s.posts,
                           decided |-> s.decided], names[i], stamps, Now)
          next ==
            IF eager /\ idle
            THEN [plog |-> IF r.log = attendanceLog THEN <<>> ELSE <<SetEntry(r.log)>>,
                  stamps |-> r.stamps, posts |-> r.posts, decided |-> r.decided]
            ELSE [s EXCEPT !.plog = Append(@, FnEntry(names[i], stamps))]
      IN  Dispatch(next, names, stamps, eager, i + 1)

\* detectAllFaces(...).withFaceLandmarks().withFaceDescriptors() settles for
\* a cycle. With the landmark or the recognition net not yet loaded the task
\* throws on the first face it has to process and detectFaces rejects;
\* otherwise every detection of the frame is classified and each recognized
\* name is passed to onFaceRecognized
detectFacesDone ==
    \E c \in BagToSet(inFlight), frame \in Frames, eager \in BOOLEAN :
        LET throws == frame # <<>> /\ ~modelsLoaded
            names == IF throws THEN <<>> ELSE RecognizedNames(c.matcher, frame, 1)
            s == Dispatch([plog |-> pendingLog, stamps |-> pendingStamps,
                           posts |-> posts, decided |-> <<>>],
                          names, c.stamps, eager, 1)
        IN  /\ Len(posts) + Len(pendingLog) + Len(names) <= MaxLog
            /\ inFlight' = inFlight (-) SetToBag({c})
            /\ pendingLog' = s.plog
            /\ pendingStamps' = s.stamps
            /\ posts' = s.posts
            /\ decided' = s.decided
            /\ labels' = IF throws THEN <<>> ELSE DrawnLabels(c.matcher, frame)
            /\ rejected' = throws
            /\ UNCHANGED <<registeredUsers, pendingUsers, faceMatcher,
                   lastLoggedTimestamps, attendanceLog, modelsLoaded, stream,
                   ended, interval, clock, file, fetchState, fetchData, backend,
                   collection, error, nameText, message, isRegistering, capture,
                   localStorage, csvContent, isLoaded>>

\* React processes the setAttendanceLog queue of a render
RECURSIVE ProcessLog(_, _, _)
ProcessLog(s, queue, i) ==
    IF i > Len(queue) THEN s
    ELSE IF queue[i].kind = "set"
         THEN ProcessLog([s EXCEPT !.log = queue[i].log], queue, i + 1)
         ELSE ProcessLog(RunUpdater(s, queue[i].name, queue[i].stamps, Now), queue, i + 1)

\* A render of App and WebcamDisplay with its effects: the queued updates are
\* applied; a new registeredUsers is saved to localStorage when it is not
\* empty and rebuilds the matcher; a new faceMatcher or a
\* new lastLoggedTimestamps re-creates detectFaces, so the detection effect
\* is cleaned up (interval cleared, tracks of the stream stopped) and re-run.
\* Whether a video whose tracks were stopped reports ended, or keeps showing
\* its last frame, depends on the browser: both outcomes are allowed.
Render ==
    /\ pendingUsers # <<>> \/ pendingLog # <<>> \/ pendingStamps # <<>>
    /\ LET s == ProcessLog([log |-> attendanceLog, stamps |-> pendingStamps,
                            posts |-> posts, decided |-> <<>>], pendingLog, 1)
           users == registeredUsers \o pendingUsers
           recreated == pendingUsers # <<>> \/ s.stamps # <<>>
       IN  /\ registeredUsers' = users
           /\ faceMatcher' = IF pendingUsers # <<>> THEN BuildMatcher(users) ELSE faceMatcher
           /\ attendanceLog' = s.log
           /\ lastLoggedTimestamps' = ApplyStamps(lastLoggedTimestamps, s.stamps, 1)
           /\ posts' = s.posts
           /\ decided' = s.decided
           /\ labels' = <<>>
           /\ rejected' = FALSE
           /\ IF recreated /\ stream \in {"live", "stopped"} /\ error = {}
              THEN /\ stream' = "stopped"
                   /\ ended' \in (IF stream = "live" THEN BOOLEAN ELSE {ended})
                   /\ interval' = ~ended'
              ELSE UNCHANGED <<stream, ended, interval>>
    /\ localStorage' = IF registeredUsers \o pendingUsers # <<>>
                       THEN StringifyUsers(registeredUsers \o pendingUsers)
                       ELSE localStorage
    /\ pendingUsers' = <<>>
    /\ pendingLog' = <<>>
    /\ pendingStamps' = <<>>
    /\ UNCHANGED <<inFlight, modelsLoaded, clock, file, fetchState, fetchData,
                   backend, collection, error, nameText, message, isRegistering,
                   capture, csvContent, isLoaded>>

---------------------------------------------------------------------------
\* RegistrationPanel.tsx

\* onChange of the name input, which is rendered once the models are loaded
\* and disabled while registering
setName ==
    \E text \in NameTexts :
        /\ modelsLoaded /\ ~isRegistering
        /\ text # nameText
        /\ nameText' = text
        /\ decided' = <<>> /\ labels' = <<>> /\ rejected' = FALSE
        /\ UNCHANGED <<registeredUsers, pendingUsers, faceMatcher,
                   lastLoggedTimestamps, pendingStamps, attendanceLog,
                   pendingLog, inFlight, modelsLoaded, stream, error, ended,
                   interval, clock, posts, file, fetchState, fetchData, backend,
                   collection, localStorage, message, isRegistering, capture,
                   csvContent, isLoaded>>

\* captureAndRegister up to await getUserMedia: the two early returns, or
\* setIsRegistering(true) with the name the callback closed over
captureAndRegister ==
    /\ ~isRegistering
    /\ IF trim(nameText) = <<>>
       THEN /\ message' = "Please enter a name."
            /\ UNCHANGED <<isRegistering, capture>>
       ELSE IF ~modelsLoaded
       THEN /\ message' = "Models not loaded yet. Please wait."
            /\ UNCHANGED <<isRegistering, capture>>
       ELSE /\ Len(registeredUsers) + Len(pendingUsers) < MaxUsers
            /\ message' = "Attempting to capture face..."
            /\ isRegistering' = TRUE
            /\ capture' = <<[name |-> nameText, stream |-> "pending"]>>
    /\ decided' = <<>> /\ labels' = <<>> /\ rejected' = FALSE
    /\ UNCHANGED <<registeredUsers, pendingUsers, faceMatcher,
                   lastLoggedTimestamps, pendingStamps, attendanceLog,
                   pendingLog, inFlight, modelsLoaded, stream, error, ended,
                   interval, clock, posts, file, fetchState, fetchData, backend,
                   collection, localStorage, nameText, csvContent, isLoaded>>

\* getUserMedia resolves for captureAndRegister: the stream becomes the
\* srcObject of a temporary video element and the callback awaits a promise
\* that only the loadedmetadata event of that element resolves
captureGetUserMedia ==
    /\ capture # <<>> /\ capture[1].stream = "pending"
    /\ capture' = <<[capture[1] EXCEPT !.stream = "attached"]>>
    /\ decided' = <<>> /\ labels' = <<>> /\ rejected' = FALSE
    /\ UNCHANGED <<registeredUsers, pendingUsers, faceMatcher,
                   lastLoggedTimestamps, pendingStamps, attendanceLog,
                   pendingLog, inFlight, modelsLoaded, stream, error, ended,
                   interval, clock, posts, file, fetchState, fetchData, backend,
                   collection, localStorage, nameText, message, isRegistering,
                   csvContent, isLoaded>>

\* The temporary video fires loadedmetadata: the promise resolves, and after
\* the 500 ms timer detectSingleFace runs on the playing video
onloadedmetadata ==
    /\ capture # <<>> /\ capture[1].stream = "attached"
    /\ capture' = <<[capture[1] EXCEPT !.stream = "live"]>>
    /\ decided' = <<>> /\ labels' = <<>> /\ rejected' = FALSE
    /\ UNCHANGED <<registeredUsers, pendingUsers, faceMatcher,
                   lastLoggedTimestamps, pendingStamps, attendanceLog,
                   pendingLog, inFlight, modelsLoaded, stream, error, ended,
                   interval, clock, posts, file, fetchState, fetchData, backend,
                   collection, localStorage, nameText, message, isRegistering,
                   csvContent, isLoaded>>

\* The video track of the temporary stream delivers no frame (the camera is
\* taken away or the track ends before the first frame): the element never
\* fires loadedmetadata and the awaited promise has no other way to settle
captureTrackEnded ==
    /\ capture # <<>> /\ capture[1].stream = "attached"
    /\ capture' = <<[capture[1] EXCEPT !.stream = "ended"]>>
    /\ decided' = <<>> /\ labels' = <<>> /\ rejected' = FALSE
    /\ UNCHANGED <<registeredUsers, pendingUsers, faceMatcher,
                   lastLoggedTimestamps, pendingStamps, attendanceLog,
                   pendingLog, inFlight, modelsLoaded, stream, error, ended,
                   interval, clock, posts, file, fetchState, fetchData, backend,
                   collection, localStorage, nameText, message, isRegistering,
                   csvContent, isLoaded>>

\* getUserMedia or the detection rejects: catch, then finally stops the
\* tracks of the stream if there is one and setIsRegistering(false)
captureRejects ==
    /\ capture # <<>> /\ capture[1].stream \in {"pending", "live"}
    /\ message' = "Error during registration"
    /\ capture' = <<>>
    /\ isRegistering' = FALSE
    /\ decided' = <<>> /\ labels' = <<>> /\ rejected' = FALSE
    /\ UNCHANGED <<registeredUsers, pendingUsers, faceMatcher,
                   lastLoggedTimestamps, pendingStamps, attendanceLog,
                   pendingLog, inFlight, modelsLoaded, stream, error, ended,
                   interval, clock, posts, file, fetchState, fetchData, backend,
                   collection, localStorage, nameText, csvContent, isLoaded>>

\* detectSingleFace resolves: with a detection onFaceRegistered(name.trim(),
\* descriptor) and setName(''), without one a warning; then finally
captureDetection ==
    \E found \in BOOLEAN, descriptor \in Descriptors :
        /\ capture # <<>> /\ capture[1].stream = "live"
        /\ IF found
           THEN /\ pendingUsers' = AppendUser(pendingUsers,
                                      [name |-> Join(trim(capture[1].name)),
                                       descriptor |-> descriptor])
                /\ message' = "registered successfully!"
                /\ nameText' = <<>>
           ELSE /\ message' = "No face detected or quality too low."
                /\ UNCHANGED <<pendingUsers, nameText>>
        /\ capture' = <<>>
        /\ isRegistering' = FALSE
        /\ decided' = <<>> /\ labels' = <<>> /\ rejected' = FALSE
        /\ UNCHANGED <<registeredUsers, faceMatcher, lastLoggedTimestamps,
                   pendingStamps, attendanceLog, pendingLog, inFlight,
                   modelsLoaded, stream, error, ended, interval, clock, posts,
                   file, fetchState, fetchData, backend, collection,
                   localStorage, csvContent, isLoaded>>

---------------------------------------------------------------------------
\* AttendanceTable.tsx and updateCSV of App.tsx: the CSV export. A text is a
\* sequence of pieces, each a special character or a run of ordinary ones.

\* The text of a locale-formatted date or time
LocaleText(formatted) == <<formatted[1], ToString(formatted[2])>>

\* `"${record.name}","${date}","${time}"`
CsvRow(record) ==
    <<"\"">> \o record.name \o <<"\"", ",", "\"">>
      \o LocaleText(toLocaleDateString(record.timestamp)) \o <<"\"", ",", "\"">>
      \o LocaleText(toLocaleTimeString(record.timestamp)) \o <<"\"">>

\* records.map(...).join("\n")
RECURSIVE JoinRows(_, _)
JoinRows(records, i) ==
    IF i > Len(records) THEN <<>>
    ELSE CsvRow(records[i])
           \o (IF i < Len(records) THEN <<"\n">> ELSE <<>>)
           \o JoinRows(records, i + 1)

\* BOM + headers + rows
CsvContent(records) ==
    <<"BOM", "Name", ",", "Date", ",", "Time", "\n">> \o JoinRows(records, 1)

\* downloadCSV of the attendance table: nothing but an alert for an empty log
downloadCSV ==
    /\ attendanceLog # <<>>
    /\ csvContent' = CsvContent(attendanceLog)
    /\ decided' = <<>> /\ labels' = <<>> /\ rejected' = FALSE
    /\ UNCHANGED <<registeredUsers, pendingUsers, faceMatcher,
                   lastLoggedTimestamps, pendingStamps, attendanceLog,
                   pendingLog, inFlight, modelsLoaded, stream, error, ended,
                   interval, clock, posts, file, fetchState, fetchData, backend,
                   collection, nameText, message, isRegistering, capture,
                   localStorage, isLoaded>>

\* updateCSV(records) of App, which formats whatever it is given
updateCSV ==
    /\ csvContent' = CsvContent(attendanceLog)
    /\ csvContent' # csvContent
    /\ decided' = <<>> /\ labels' = <<>> /\ rejected' = FALSE
    /\ UNCHANGED <<registeredUsers, pendingUsers, faceMatcher,
                   lastLoggedTimestamps, pendingStamps, attendanceLog,
                   pendingLog, inFlight, modelsLoaded, stream, error, ended,
                   interval, clock, posts, file, fetchState, fetchData, backend,
                   collection, nameText, message, isRegistering, capture,
                   localStorage, isLoaded>>

---------------------------------------------------------------------------
\* types.ts: the file-backed server and the mongo-backed server

\* readRecords / res.json(records): what a GET /api/attendance returns
readRecords == file

\* res.json(document): the Date of a stored document leaves as an ISO string
MongoJson(doc) == [doc EXCEPT !.timestamp = toISOString(@)]

\* sort({ timestamp: -1 }): insertion of doc into a list sorted newest first
RECURSIVE SortInsert(_, _, _)
SortInsert(sorted, doc, i) ==
    IF i > Len(sorted) THEN Append(sorted, doc)
    ELSE IF sorted[i].timestamp < doc.timestamp
         THEN SubSeq(sorted, 1, i - 1) \o <<doc>> \o SubSeq(sorted, i, Len(sorted))
         ELSE SortInsert(sorted, doc, i + 1)

RECURSIVE SortByTimestamp(_, _, _)
SortByTimestamp(docs, sorted, i) ==
    IF i > Len(docs) THEN sorted
    ELSE SortByTimestamp(docs, SortInsert(sorted, docs[i], 1), i + 1)

\* Attendance.find().sort({ timestamp: -1 }) as sent by res.json(records)
findSorted ==
    LET sorted == SortByTimestamp(collection, <<>>, 1)
    IN  [i \in 1..Len(sorted) |-> MongoJson(sorted[i])]

\* The body of the answer of app.get('/api/attendance') of the server that runs
getBody == IF backend = "file" THEN readRecords ELSE findSorted

\* app.get('/api/attendance') serving the GET of the mount effect
getAttendance ==
    /\ fetchState = "sent"
    /\ fetchData' = getBody
    /\ fetchState' = "read"
    /\ decided' = <<>> /\ labels' = <<>> /\ rejected' = FALSE
    /\ UNCHANGED <<registeredUsers, pendingUsers, faceMatcher,
                   lastLoggedTimestamps, pendingStamps, attendanceLog,
                   pendingLog, inFlight, modelsLoaded, stream, ended, interval,
                   clock, posts, file, backend, collection, error, nameText,
                   message, isRegistering, capture, localStorage, csvContent,
                   isLoaded>>

\* data.map(record => ({ id: record._id, name, timestamp: new Date(...) }))
FetchedRecord(record) ==
    [id |-> Undefined, name |-> record.name, timestamp |-> parseDate(record.timestamp)]

\* fetchAttendanceRecords: the response arrives, setAttendanceLog(data.map(...))
fetchAttendanceRecords ==
    /\ fetchState = "read"
    /\ fetchState' = "done"
    /\ pendingLog' = Append(pendingLog,
                            SetEntry([i \in 1..Len(fetchData) |-> FetchedRecord(fetchData[i])]))
    /\ decided' = <<>> /\ labels' = <<>> /\ rejected' = FALSE
    /\ UNCHANGED <<registeredUsers, pendingUsers, faceMatcher,
                   lastLoggedTimestamps, pendingStamps, attendanceLog, inFlight,
                   modelsLoaded, stream, ended, interval, clock, posts, file,
                   fetchData, backend, collection, error, nameText, message,
                   isRegistering, capture, localStorage, csvContent, isLoaded>>

\* saveAttendanceRecord fails: fetch rejects or the response is not ok; the
\* catch block logs the error and nothing else happens
saveAttendanceRecordFails ==
    \E i \in 1..Len(posts) :
        /\ posts[i].phase = "sent"
        /\ posts' = [posts EXCEPT ![i] = [@ EXCEPT !.phase = "failed"]]
        /\ decided' = <<>> /\ labels' = <<>> /\ rejected' = FALSE
        /\ UNCHANGED <<registeredUsers, pendingUsers, faceMatcher,
                   lastLoggedTimestamps, pendingStamps, attendanceLog,
                   pendingLog, inFlight, modelsLoaded, stream, error, ended,
                   interval, clock, file, fetchState, fetchData, backend,
                   collection, nameText, message, isRegistering, capture,
                   localStorage, csvContent, isLoaded>>

\* A body without a name property: `${name}` prints it as undefined
NoName == "undefined"

\* The name a client puts in the body of a POST, or none
BodyNames == {"Alice", "Bob", NoName}

\* A client sends POST /api/attendance with body { name, timestamp }
postRequest ==
    \E name \in BodyNames :
        /\ Len(posts) < MaxPosts
        /\ posts' = Append(posts, PostRequest(NewRecord(name, Now)))
        /\ decided' = <<>> /\ labels' = <<>> /\ rejected' = FALSE
        /\ UNCHANGED <<registeredUsers, pendingUsers, faceMatcher,
                   lastLoggedTimestamps, pendingStamps, attendanceLog,
                   pendingLog, inFlight, modelsLoaded, stream, ended, interval,
                   clock, file, fetchState, fetchData, backend, collection,
                   error, nameText, message, isRegistering, capture,
                   localStorage, csvContent, isLoaded>>

\* app.post('/api/attendance') up to await readRecords() and the record built
\* from what was read: id `${name}-${Date.now()}`
postRead ==
    \E i \in 1..Len(posts) :
        /\ backend = "file"
        /\ posts[i].phase = "sent"
        /\ posts' = [posts EXCEPT ![i] = [@ EXCEPT !.phase = "read", !.snap = readRecords,
                                                   !.idNow = Now]]
        /\ decided' = <<>> /\ labels' = <<>> /\ rejected' = FALSE
        /\ UNCHANGED <<registeredUsers, pendingUsers, faceMatcher,
                   lastLoggedTimestamps, pendingStamps, attendanceLog,
                   pendingLog, inFlight, modelsLoaded, stream, ended, interval,
                   clock, file, fetchState, fetchData, backend, collection,
                   error, nameText, message, isRegistering, capture,
                   localStorage, csvContent, isLoaded>>

ServerRecord(p) ==
    [id |-> <<p.name, p.idNow>>, name |-> p.name, timestamp |-> p.timestamp,
     date |-> toLocaleDateString(parseDate(p.timestamp)),
     time |-> toLocaleTimeString(parseDate(p.timestamp))]

\* A handler that answers without having put newRecord into the file
writeRecordsWithoutRecord(p) == p.snap

\* records.unshift(newRecord); await writeRecords(records); 201
writeRecords(p) == <<ServerRecord(p)>> \o p.snap

postWrite ==
    \E i \in 1..Len(posts) :
        /\ posts[i].phase = "read"
        /\ file' = writeRecords(posts[i])
        /\ posts' = [posts EXCEPT ![i] = [@ EXCEPT !.phase = "done", !.status = 201,
                                                   !.response = ServerRecord(posts[i])]]
        /\ decided' = <<>> /\ labels' = <<>> /\ rejected' = FALSE
        /\ UNCHANGED <<registeredUsers, pendingUsers, faceMatcher,
                   lastLoggedTimestamps, pendingStamps, attendanceLog,
                   pendingLog, inFlight, modelsLoaded, stream, ended, interval,
                   clock, fetchState, fetchData, backend, collection, error,
                   nameText, message, isRegistering, capture, localStorage,
                   csvContent, isLoaded>>

\* The document new Attendance({ name, timestamp, date, time }) with the
\* ObjectId the driver gives it; timestamp is cast to a Date
MongoDocument(p, n) ==
    [_id |-> <<"oid", n>>, name |-> p.name, timestamp |-> parseDate(p.timestamp),
     date |-> toLocaleDateString(parseDate(p.timestamp)),
     time |-> toLocaleTimeString(parseDate(p.timestamp))]

\* Validation of attendanceSchema: name is required
Validates(p) == p.name # NoName

\* The mongo-backed app.post('/api/attendance'): record.save() inserts the
\* document and the handler answers 201, or validation rejects it and the
\* catch block answers 400
mongoSave ==
    \E i \in 1..Len(posts) :
        /\ backend = "mongo"
        /\ posts[i].phase = "sent"
        /\ LET doc == MongoDocument(posts[i], Len(collection) + 1)
           IN  IF Validates(posts[i])
               THEN /\ collection' = Append(collection, doc)
                    /\ posts' = [posts EXCEPT ![i] = [@ EXCEPT !.phase = "done",
                                     !.status = 201, !.response = MongoJson(doc)]]
               ELSE /\ collection' = collection
                    /\ posts' = [posts EXCEPT ![i] = [@ EXCEPT !.phase = "done",
                                     !.status = 400, !.caught = "ValidationError"]]
        /\ decided' = <<>> /\ labels' = <<>> /\ rejected' = FALSE
        /\ UNCHANGED <<registeredUsers, pendingUsers, faceMatcher,
                   lastLoggedTimestamps, pendingStamps, attendanceLog,
                   pendingLog, inFlight, modelsLoaded, stream, ended, interval,
                   clock, file, fetchState, fetchData, backend, error, nameText,
                   message, isRegistering, capture, localStorage, csvContent,
                   isLoaded>>

\* The store fails under a POST handler: readRecords, writeRecords or
\* record.save() rejects and the catch block answers
postCatch ==
    \E i \in 1..Len(posts) :
        /\ posts[i].phase \in {"sent", "read"}
        /\ posts' = [posts EXCEPT ![i] = [@ EXCEPT !.phase = "done", !.status = 400,
                                                   !.caught = "StorageFailure"]]
        /\ decided' = <<>> /\ labels' = <<>> /\ rejected' = FALSE
        /\ UNCHANGED <<registeredUsers, pendingUsers, faceMatcher,
                   lastLoggedTimestamps, pendingStamps, attendanceLog,
                   pendingLog, inFlight, modelsLoaded, stream, ended, interval,
                   clock, file, fetchState, fetchData, backend, collection,
                   error, nameText, message, isRegistering, capture,
                   localStorage, csvContent, isLoaded>>

---------------------------------------------------------------------------

\* The page: the client with the server answering its GET
Next ==
    \/ Tick
    \/ loadFromUri
    \/ loadModels
    \/ loadModelsFails
    \/ startWebcam
    \/ startWebcamFails
    \/ handleFaceRegistered
    \/ detectFacesStart
    \/ detectFacesDone
    \/ Render
    \/ getAttendance
    \/ fetchAttendanceRecords

Spec == Init /\ [][Next]_vars

\* The page while the GET of the mount effect is unanswered and the POST
\* requests it issues can fail
PersistNext ==
    \/ Tick
    \/ loadFromUri
    \/ loadModels
    \/ startWebcam
    \/ handleFaceRegistered
    \/ detectFacesStart
    \/ detectFacesDone
    \/ Render
    \/ saveAttendanceRecordFails

PersistSpec == Init /\ [][PersistNext]_vars

\* The registration panel on a page whose localStorage may hold a registry
RegInit == \E users \in StoredUsers : InitWith(StoredFile, users, <<>>) /\ backend = "file"

RegNext ==
    \/ loadFromUri
    \/ loadModels
    \/ loadModelsFails
    \/ setName
    \/ captureAndRegister
    \/ captureGetUserMedia
    \/ onloadedmetadata
    \/ captureTrackEnded
    \/ captureRejects
    \/ captureDetection
    \/ Render

RegSpec == RegInit /\ [][RegNext]_vars

\* The registration panel with every promise that can settle settling, every
\* event that can fire firing and every queued render running
RegFairSpec ==
    /\ RegSpec
    /\ WF_vars(captureGetUserMedia \/ captureRejects)
    /\ WF_vars(onloadedmetadata \/ captureTrackEnded)
    /\ WF_vars(captureDetection \/ captureRejects)
    /\ WF_vars(Render)

\* The CSV export of an attendance table that shows any log of up to
\* MaxRows records
CsvInit == \E log \in CsvLogs : InitWith(StoredFile, <<>>, log) /\ backend = "file"

CsvNext ==
    \/ downloadCSV
    \/ updateCSV

CsvSpec == CsvInit /\ [][CsvNext]_vars

\* The server process, starting on an empty attendance.json and serving the
\* POST requests of any client
ServerInit == InitWith(<<>>, <<>>, <<>>) /\ backend \in {"file", "mongo"}

ServerNext ==
    \/ Tick
    \/ postRequest
    \/ postRead
    \/ postWrite
    \/ mongoSave
    \/ postCatch
    \/ getAttendance

ServerSpec == ServerInit /\ [][ServerNext]_vars

---------------------------------------------------------------------------
\* Properties

\* Records of the log that this page accepted (fetched ones carry no id)
IsLocal(record) == record.id # Undefined

\* C1: for every name, any two accepted attendance records for that name
\* have acceptance times at least ATTENDANCE_COOLDOWN_MS apart.
C1_CooldownSpacing ==
    \A i, j \in DOMAIN attendanceLog :
        (/\ i < j
         /\ IsLocal(attendanceLog[i]) /\ IsLocal(attendanceLog[j])
         /\ attendanceLog[i].name = attendanceLog[j].name)
        => Abs(attendanceLog[i].timestamp - attendanceLog[j].timestamp)
               >= ATTENDANCE_COOLDOWN_MS

\* C2: of two accept attempts for the same name made at the same time t,
\* exactly one is accepted: the log never holds two records that this page
\* accepted for one name at one instant.
C2_OneAcceptPerInstant ==
    \A i, j \in DOMAIN attendanceLog :
        (/\ i < j
         /\ IsLocal(attendanceLog[i]) /\ IsLocal(attendanceLog[j])
         /\ attendanceLog[i].name = attendanceLog[j].name)
        => attendanceLog[i].timestamp # attendanceLog[j].timestamp

AllPostsDone == posts # <<>> /\ \A i \in DOMAIN posts : posts[i].status = 201

\* C3: once N concurrent POST /attendance requests have all completed with
\* 201, a GET /attendance returns exactly N records.
C3_NoLostAppend == AllPostsDone => Len(getBody) = Len(posts)

\* C4: at most one detectFaces cycle is in flight at any time.
C4_NoOverlap == BagCardinality(inFlight) <= 1

UniqueIds(records) ==
    \A i, j \in DOMAIN records : i # j => records[i].id # records[j].id

\* C5: all records of the ledger have pairwise distinct ids, also two records
\* for one name accepted within the same millisecond.
C5_UniqueIds ==
    UniqueIds(SelectSeq(attendanceLog, IsLocal)) /\ UniqueIds(file)

\* C6: an accept attempt for a name that has no entry in the cooldown state
\* is accepted, whatever the value of now.
C6_FirstSightingAccepted ==
    \A i \in DOMAIN decided : ~decided[i].had => decided[i].accepted

\* C7: after an accept for a name at time t, an attempt for that name at t'
\* is suppressed and leaves the count unchanged when t' - t is below the
\* cooldown window, and is accepted and adds exactly one record otherwise.
C7_GateAfterAccept ==
    \A i \in DOMAIN decided :
        LET d == decided[i]
        IN  d.prev >= 0 =>
              IF d.now - d.prev < ATTENDANCE_COOLDOWN_MS
              THEN ~d.accepted /\ d.after = d.before
              ELSE d.accepted /\ d.after = d.before + 1

\* The distance from q to the nearest registered embedding
NearestDistance(users, q) ==
    CHOOSE d \in {euclideanDistance(users[i].descriptor, q) : i \in DOMAIN users} :
        \A i \in DOMAIN users : d <= euclideanDistance(users[i].descriptor, q)

\* C8: with a registry of at least one identity, a detection is labelled with
\* the name of a nearest registered embedding when that distance is below
\* FACE_MATCH_THRESHOLD and "Unknown" otherwise; with an empty registry the
\* label is always "Unknown".
C8_NearestNeighbourLabel ==
    \A q \in Descriptors :
        LET label == Classify(faceMatcher, q).name
        IN  IF registeredUsers = <<>> THEN label = "Unknown"
            ELSE LET d == NearestDistance(registeredUsers, q)
                 IN  IF d < FACE_MATCH_THRESHOLD
                     THEN \E i \in DOMAIN registeredUsers :
                            /\ euclideanDistance(registeredUsers[i].descriptor, q) = d
                            /\ label = registeredUsers[i].name
                     ELSE label = "Unknown"

IsFn(entry) == entry.kind = "fn"

IsKnown(label) == label # "Unknown"

\* The names handleFaceRecognized was called with in a step, in call order
CalledNames(before, after, dec) ==
    LET added == SelectSeq(SubSeq(after, Len(before) + 1, Len(after)), IsFn)
    IN  [i \in 1..Len(dec) |-> dec[i].name] \o [i \in 1..Len(added) |-> added[i].name]

\* A recognized detection is one whose best match is an entry of the matcher
\* at a distance below the threshold
RecognizedIsMatch(matcher) ==
    \A q \in Descriptors :
        LET c == Classify(matcher, q)
        IN  /\ c.recognized <=> IsKnown(c.name)
            /\ c.recognized =>
                 /\ matcher # NoMatcher
                 /\ \E i \in DOMAIN matcher :
                      /\ matcher[i].label = c.name
                      /\ computeMeanDistance(q, matcher[i].descriptors) < FACE_MATCH_THRESHOLD

\* C9: a detection labelled "Unknown" never reaches the cooldown gate: a
\* completed cycle calls onFaceRecognized exactly for its detections with a
\* label other than "Unknown", each a match below the threshold, and a cycle
\* with only "Unknown" labels leaves the cooldown state, the log and the
\* requests to the server unchanged.
C9_UnknownNeverGated ==
    [][ BagCardinality(inFlight') < BagCardinality(inFlight) =>
          /\ \A c \in BagToSet(inFlight) : RecognizedIsMatch(c.matcher)
          /\ CalledNames(pendingLog, pendingLog', decided') = SelectSeq(labels', IsKnown)
          /\ (\A i \in DOMAIN labels' : labels'[i] = "Unknown") =>
                /\ decided' = <<>>
                /\ UNCHANGED <<lastLoggedTimestamps, pendingStamps, attendanceLog,
                               pendingLog, posts>> ]_vars

\* A cycle has drawn an "Unknown" label next to a recognized one
C9_Witness ==
    \E i, j \in DOMAIN labels : labels[i] = "Unknown" /\ IsKnown(labels[j])

\* C10: the number of records in the ledger never decreases.
C10_LedgerOnlyGrows == [][ Len(file') >= Len(file) ]_vars

\* The records are ordered by timestamp, newest first
RECURSIVE SortedDescending(_, _)
SortedDescending(records, i) ==
    IF i >= Len(records) THEN TRUE
    ELSE /\ parseDate(records[i].timestamp) >= parseDate(records[i + 1].timestamp)
         /\ SortedDescending(records, i + 1)

\* C11: the collection a GET /attendance returns is sorted by timestamp in
\* descending order, whatever the order of the appends, also after an
\* append whose timestamp is older than that of a record already stored.
C11_GetSortedDescending == fetchState # "sent" => SortedDescending(fetchData, 1)

\* C12: when the backing store fails during a POST /attendance (the read or
\* the write of the ledger throws), the response status is 500.
C12_StorageFailureIs500 ==
    \A i \in DOMAIN posts : posts[i].caught = "StorageFailure" => posts[i].status = 500

\* C13: a POST /attendance whose body is malformed (here: no name) is
\* answered with 400 and leaves the ledger unchanged.
C13_MalformedBodyRejected ==
    [][ \A i \in DOMAIN posts :
          (/\ posts[i].name = NoName
           /\ posts[i].phase # "done"
           /\ posts'[i].phase = "done")
          => /\ posts'[i].status = 400
             /\ UNCHANGED <<file, collection, error, nameText, message, isRegistering,
                   capture, localStorage, csvContent, isLoaded>> ]_vars

\* The record of a 201 response is what the store holds for the request
StoredAs(response) ==
    IF backend = "file"
    THEN /\ response.id # Undefined
         /\ file' # <<>> /\ file'[1] = response
    ELSE /\ response._id # Undefined
         /\ Len(collection') = Len(collection) + 1
         /\ MongoJson(collection'[Len(collection')]) = response
         /\ \A k \in DOMAIN collection : collection[k]._id # response._id

\* C17: a successful POST /attendance with body {name, timestamp} returns 201
\* with a record that carries an id assigned by the server and the name and
\* the timestamp of the request, and that record is the one stored.
C17_CreatedRecordReturned ==
    [][ \A i \in DOMAIN posts :
          (posts[i].phase # "done" /\ posts'[i].status = 201)
          => LET response == posts'[i].response
             IN  /\ response.name = posts[i].name
                 /\ parseDate(response.timestamp) = parseDate(posts[i].timestamp)
                 /\ StoredAs(response) ]_vars

\* Both requests of two clients have been answered 201
C17_Witness ==
    \E i, j \in DOMAIN posts :
        /\ i # j
        /\ posts[i].status = 201 /\ posts[j].status = 201
        /\ posts[i].name = "Alice"

\* C14: stopping a session by entering the error state stops the detection
\* loop and releases the camera on every exit path: once the error is shown
\* no detectFaces tick is scheduled and no track of an acquired stream runs.
C14_StopReleasesCamera ==
    error # {} => ~interval /\ stream \notin {"live", "unattached"}

\* A POST for name failed that was issued less than the cooldown before now
FailedWithin(name, now) ==
    \E i \in DOMAIN posts :
        /\ posts[i].phase = "failed"
        /\ posts[i].name = name
        /\ now - parseDate(posts[i].timestamp) < ATTENDANCE_COOLDOWN_MS

\* C15: when persisting an accepted event fails, the write is not retried
\* and the cooldown state for that name stays updated: a further detection
\* of the same name inside the window is suppressed and issues no new
\* write, while detections of other names are still processed.
C15_FailedPersistKeepsCooldown ==
    \A i \in DOMAIN decided :
        LET d == decided[i]
        IN  FailedWithin(d.name, d.now) => ~d.accepted /\ d.after = d.before

IsAlice(r) == r.name = "Alice"

\* C16: end to end, with "Alice" registered: a detection of her embedding at
\* t=0 leaves the ledger with exactly one record named "Alice", a further
\* one inside the cooldown window leaves it with one record, and a detection
\* labelled "Unknown" leaves the ledger unchanged.
C16_EndToEnd ==
    /\ (Now < ATTENDANCE_COOLDOWN_MS /\ \E i \in DOMAIN decided : IsAlice(decided[i]))
       => Len(SelectSeq(posts, IsAlice)) = 1
    /\ (labels # <<>> /\ \A i \in DOMAIN labels : labels[i] = "Unknown")
       => decided = <<>>

\* The registry as it is once the queued registrations are rendered
Registry == registeredUsers \o pendingUsers

IsBlank(text) == \A i \in DOMAIN text : text[i] \in WhiteSpace

\* C18: a registration attempt whose name is empty or only whitespace is
\* rejected and leaves the registry unchanged: no capture is started and
\* onFaceRegistered is not called.
C18_BlankNameRejected ==
    [][ (IsBlank(nameText) /\ ~isRegistering)
        => /\ ~isRegistering' /\ capture' = <<>>
           /\ Registry' = Registry
           /\ message' # message => message' = "Please enter a name." ]_vars

\* An attempt with a name of only whitespace has been rejected
C18_Witness ==
    /\ modelsLoaded
    /\ nameText = <<" ", "\t">>
    /\ message = "Please enter a name."

IsPrefix(a, b) == Len(a) <= Len(b) /\ SubSeq(b, 1, Len(a)) = a

\* C19: the registry only grows: every successful registration appends
\* exactly one entry at the end, no entry is ever removed, changed or
\* reordered, and a registration under a name that is already registered
\* adds a separate entry rather than merging into the existing one.
C19_RegistryOnlyGrows ==
    [][ /\ IsPrefix(registeredUsers, registeredUsers')
        /\ IsPrefix(Registry, Registry')
        /\ IsPrefix(ParseUsers(localStorage), ParseUsers(localStorage'))
        /\ (isRegistering /\ message' = "registered successfully!")
           => /\ Len(Registry') = Len(Registry) + 1
              /\ Registry'[Len(Registry')].name = Join(trim(capture[1].name))
        /\ ~(isRegistering /\ message' = "registered successfully!")
           => Registry' = Registry ]_vars

\* Two separate entries of the registry carry the same name
C19_Witness ==
    \E i, j \in DOMAIN registeredUsers :
        /\ i < j
        /\ registeredUsers[i].name = registeredUsers[j].name
        /\ registeredUsers[i].descriptor # registeredUsers[j].descriptor

\* The cooldown state once the queued setLastLoggedTimestamps are rendered
CooldownState == ApplyStamps(lastLoggedTimestamps, pendingStamps, 1)

\* The entry of name in a cooldown state, if any
Entry(stamps, name) == IF name \in DOMAIN stamps THEN <<stamps[name]>> ELSE <<>>

\* The log once the queued setAttendanceLog(value) are rendered; the queued
\* updaters are the attempts still to be decided
RECURSIVE SetLog(_, _, _)
SetLog(log, queue, i) ==
    IF i > Len(queue) THEN log
    ELSE SetLog(IF queue[i].kind = "set" THEN queue[i].log ELSE log, queue, i + 1)

AcceptedIn(dec, name) == \E i \in DOMAIN dec : dec[i].name = name /\ dec[i].accepted

\* C20: a suppressed accept attempt leaves the cooldown state and the
\* attendance log unchanged, and an accepted attempt for a name changes only
\* that name's cooldown entry: the entries of every other name, and so their
\* later accept decisions, are unaffected.
C20_GateFrame ==
    [][ /\ \A name \in Names :
              IF AcceptedIn(decided', name)
              THEN Entry(CooldownState', name) = <<Now>>
              ELSE Entry(CooldownState', name) = Entry(CooldownState, name)
        /\ \A i \in DOMAIN decided' :
              ~decided'[i].accepted => decided'[i].after = decided'[i].before
        /\ (decided' # <<>> /\ \A name \in Names : ~AcceptedIn(decided', name))
           => /\ SetLog(attendanceLog', pendingLog', 1) = SetLog(attendanceLog, pendingLog, 1)
              /\ posts' = posts ]_vars

\* An attempt was accepted while another name holds a cooldown entry
C20_Witness ==
    \E i \in DOMAIN decided :
        /\ decided[i].accepted
        /\ \E name \in DOMAIN CooldownState : name # decided[i].name

\* A reader of CSV as RFC 4180 defines it: fields separated by commas, rows
\* by line breaks, a field in double quotes may hold both, and a double
\* quote inside it is written twice. at is "start" (of a field), "plain",
\* "quoted" or "closed" (after the closing quote).
RECURSIVE ReadCsv(_, _, _, _, _, _)
ReadCsv(text, i, at, field, row, rows) ==
    IF i > Len(text)
    THEN IF at = "start" /\ row = <<>> THEN rows ELSE Append(rows, Append(row, field))
    ELSE LET c == text[i]
         IN  IF at = "quoted"
             THEN IF c = "\""
                  THEN ReadCsv(text, i + 1, "closed", field, row, rows)
                  ELSE ReadCsv(text, i + 1, "quoted", Append(field, c), row, rows)
             ELSE IF c = ","
             THEN ReadCsv(text, i + 1, "start", <<>>, Append(row, field), rows)
             ELSE IF c = "\n"
             THEN ReadCsv(text, i + 1, "start", <<>>, <<>>, Append(rows, Append(row, field)))
             ELSE IF c = "\"" /\ at = "start"
             THEN ReadCsv(text, i + 1, "quoted", field, row, rows)
             ELSE IF c = "\"" /\ at = "closed"
             THEN ReadCsv(text, i + 1, "quoted", Append(field, c), row, rows)
             ELSE ReadCsv(text, i + 1, "plain", Append(field, c), row, rows)

\* The rows of a CSV file below its header, the byte order mark skipped
ParsedRows(text) ==
    LET body == IF text # <<>> /\ Head(text) = "BOM" THEN Tail(text) ELSE text
        rows == ReadCsv(body, 1, "start", <<>>, <<>>, <<>>)
    IN  IF rows # <<>> /\ rows[1] = << <<"Name">>, <<"Date">>, <<"Time">> >>
        THEN Tail(rows) ELSE <<>>

\* The name, date and time of a record as the table shows them
ExpectedRow(record) ==
    <<record.name, LocaleText(toLocaleDateString(record.timestamp)),
      LocaleText(toLocaleTimeString(record.timestamp))>>

\* C21: the CSV export round-trips: re-parsing the export of k records
\* yields exactly k rows whose name, date and time are those of the records,
\* also for a name that holds a double quote, a comma or a line break.
C21_CsvRoundTrip ==
    csvContent # <<>> =>
        ParsedRows(csvContent) = [i \in 1..Len(attendanceLog) |-> ExpectedRow(attendanceLog[i])]

\* C22: every registration invalidates the matcher: a detection cycle that
\* starts after a registration has completed classifies against a matcher
\* built from the whole current registry, the new entry included, and never
\* against one built from an earlier snapshot.
C22_MatcherFollowsRegistry ==
    [][ \A c \in BagToSet(inFlight') :
          CopiesIn(c, inFlight') > CopiesIn(c, inFlight)
          => c.matcher = BuildMatcher(Registry) ]_vars

\* later holds every entry of earlier, none with a smaller value
MovedForward(earlier, later) ==
    \A name \in DOMAIN earlier :
        name \in DOMAIN later /\ later[name] >= earlier[name]

\* C23: each cooldown entry only moves forward in time and is never removed:
\* once lastLoggedTimestamps has an entry for a name it keeps one in every
\* later state, and its value never decreases.
C23_EntriesMoveForward ==
    [][ /\ MovedForward(lastLoggedTimestamps, lastLoggedTimestamps')
        /\ MovedForward(CooldownState, CooldownState') ]_vars

\* The entry of a name accepted at Times[2] has moved on to Times[3]
C23_Witness ==
    \E name \in DOMAIN lastLoggedTimestamps :
        /\ lastLoggedTimestamps[name] = Times[3]
        /\ \E i \in DOMAIN attendanceLog :
              /\ IsLocal(attendanceLog[i])
              /\ attendanceLog[i].name = name
              /\ attendanceLog[i].timestamp = Times[2]

\* The position of the entry registered first among those of the matcher at
\* the minimal distance from the query
FirstNearest(m, q) ==
    CHOOSE i \in DOMAIN m :
        /\ \A j \in DOMAIN m : FaceMatch(m, q, i).distance <= FaceMatch(m, q, j).distance
        /\ \A j \in 1..(i - 1) : FaceMatch(m, q, j).distance > FaceMatch(m, q, i).distance

\* C24: matching is a stable argmin: when several entries of the matcher are
\* at exactly the same minimal distance from the query, the entry that was
\* registered first is the best match and determines the label drawn.
C24_StableArgmin ==
    \A q \in Descriptors :
        faceMatcher # NoMatcher =>
            LET first == FaceMatch(faceMatcher, q, FirstNearest(faceMatcher, q))
            IN  /\ matchDescriptor(faceMatcher, q).label = first.label
                /\ (first.distance < FACE_MATCH_THRESHOLD /\ first.label # "unknown")
                      => Classify(faceMatcher, q).name = first.label

\* C25: while the models are not loaded or no matcher has been built, a
\* detection cycle that completes has not failed and reports no recognized
\* face: every label it draws is "Unknown", the cooldown state, the log and
\* the requests stay unchanged, and the detection interval keeps running.
C25_NotReadyIsUnknown ==
    [][ (/\ BagCardinality(inFlight') < BagCardinality(inFlight)
         /\ (~modelsLoaded \/ faceMatcher = NoMatcher))
        => /\ ~rejected'
           /\ \A i \in DOMAIN labels' : labels'[i] = "Unknown"
           /\ decided' = <<>>
           /\ interval' = interval
           /\ UNCHANGED <<lastLoggedTimestamps, pendingStamps, attendanceLog,
                          pendingLog, posts>> ]_vars

\* C26: while the session runs without an error the camera stream stays
\* live: a step that changes the registry, rebuilds the matcher and
\* re-creates detectFaces leaves the tracks of the active stream running.
C26_StreamStaysLive ==
    [][ (/\ stream = "live"
         /\ error' = {}
         /\ registeredUsers' # registeredUsers)
        => stream' = "live" ]_vars

\* C27: a record accepted locally is never dropped from the attendance log
\* of the page: every record that handleFaceRecognized added to
\* attendanceLog is still in attendanceLog after every later step, however
\* the response of the initial fetch interleaves with the recognitions.
C27_LocalRecordsKept ==
    [][ \A i \in DOMAIN attendanceLog :
            IsLocal(attendanceLog[i])
            => \E j \in DOMAIN attendanceLog' : attendanceLog'[j] = attendanceLog[i] ]_vars

\* C28: captureAndRegister always finishes and cleans up: once it has set
\* isRegistering to true it eventually has stopped the tracks of the
\* temporary stream (no capture is running) and set isRegistering to false.
C28_CaptureFinishes == isRegistering ~> (~isRegistering /\ capture = <<>>)

====
